---- MODULE Spec2Model ----
(***************************************************************************)
(* Particle simulation of hawkgs/snow: the Rainfall population manager of  *)
(* scripts/rain.js (Vector, Raindrop, force factories, Rainfall.update,    *)
(* the animate frame callback).                                            *)
(*                                                                         *)
(* Numbers.  The source computes with IEEE doubles.  The model represents  *)
(* a number r by the integer r * Scale (fixed point), products and         *)
(* quotients rounded toward zero.  Times (Date.now()) are whole            *)
(* milliseconds and are kept unscaled, except `then`, which the source     *)
(* computes with the fractional fpsInterval and which is kept scaled.      *)
(*                                                                         *)
(* Objects.  Vectors are mutable objects in the source.  Where a vector    *)
(* can be reached through more than one name (the state handed to a force  *)
(* factory), the model keeps a heap h: reference -> vector value, and the  *)
(* Vector functions that mutate their first argument are applied to the    *)
(* heap cell of that reference.                                            *)
(***************************************************************************)
EXTENDS Integers, Sequences, FiniteSets, TLC

VARIABLES
    config,          \* cfg = { ...DEFAULT_CONFIG, ...config } of attachToElement
    drops,           \* Rainfall.drops: the population, in array order
    forceFactories,  \* Rainfall.forceFactories, in registration order
    clock,           \* Date.now(), ms
    then,            \* animate's `then` (scaled ms)
    pc,              \* "setup" (initRainfall registering) or "animating"
    nextId,          \* object identity of the next raindrop created
    ticked,          \* TRUE once Rainfall.update has run
    lastNow,         \* Date.now() of the last Rainfall.update
    preLen,          \* drops.length when the last update began
    spawnLen,        \* drops.length after __createRaindropsLayer of the last update
    scan,            \* what the scan loop of the last update did, per index
    frameTicks,      \* calls of draw() made by the last run of animate
    step             \* ms between two ticks when the clock step is fixed, else 0

vars == <<config, drops, forceFactories, clock, then, pc, nextId,
          ticked, lastNow, preLen, spawnLen, scan, frameTicks, step>>

----------------------------------------------------------------------------
(* Bounds of the model *)

Scale == 100
MaxClock == 6
MaxStep == 2

----------------------------------------------------------------------------
(* Numbers *)

Num(n) == n * Scale

Abs(a) == IF a < 0 THEN -a ELSE a

Sign(a) == IF a < 0 THEN -1 ELSE 1

NaN == "NaN"
PosInfinity == "Infinity"
NegInfinity == "-Infinity"

\* a * b of two scaled numbers
FMul(a, b) == Sign(a) * Sign(b) * ((Abs(a) * Abs(b)) \div Scale)

\* a / b of two scaled numbers; JS yields NaN or an infinity for b = 0
FDiv(a, b) ==
    IF b = 0
    THEN (IF a = 0 THEN NaN ELSE IF a > 0 THEN PosInfinity ELSE NegInfinity)
    ELSE Sign(a) * Sign(b) * ((Abs(a) * Scale) \div Abs(b))

RECURSIVE SqrtSearch(_, _, _)
SqrtSearch(n, lo, hi) ==
    IF lo >= hi THEN lo
    ELSE LET mid == (lo + hi + 1) \div 2
         IN IF mid * mid <= n THEN SqrtSearch(n, mid, hi)
            ELSE SqrtSearch(n, lo, mid - 1)

\* Math.sqrt of a scaled number (46340 is the largest root of a 32-bit square)
FSqrt(a) == SqrtSearch(a * Scale, 0, IF a * Scale < 46340 THEN a * Scale ELSE 46340)

Min(a, b) == IF a < b THEN a ELSE b

Max(a, b) == IF a > b THEN a ELSE b


----------------------------------------------------------------------------
(* Vector (rain.js, const Vector).  A vector value is [x |-> , y |-> ].    *)
(* An operand that is a JS number n is written JsNumber(n).  Each function *)
(* below returns the value its first argument holds after the call.        *)

JsNumber(n) == [number |-> n]

VectorizeError == [error |-> "Vector: Cannot vectorize argument."]

Threw(r) == "error" \in DOMAIN r

\* __vectorize that takes any other operand for 0 instead of throwing
__vectorize_Coerce(arg) ==
    IF "x" \in DOMAIN arg /\ "y" \in DOMAIN arg THEN arg
    ELSE IF "number" \in DOMAIN arg THEN [x |-> arg.number, y |-> arg.number]
    ELSE [x |-> 0, y |-> 0]

__vectorize(arg) ==
    IF "x" \in DOMAIN arg /\ "y" \in DOMAIN arg THEN arg
    ELSE IF "number" \in DOMAIN arg THEN [x |-> arg.number, y |-> arg.number]
    ELSE VectorizeError

Vector_create(x, y) == [x |-> x, y |-> y]

Vector_add(v, arg) ==
    LET vector == __vectorize(arg)
    IN IF Threw(vector) THEN v
       ELSE [x |-> v.x + vector.x, y |-> v.y + vector.y]

Vector_divide(v, arg) ==
    LET vector == __vectorize(arg)
    IN IF Threw(vector) THEN v
       ELSE [x |-> FDiv(v.x, vector.x), y |-> FDiv(v.y, vector.y)]

Vector_multiply(v, arg) ==
    LET vector == __vectorize(arg)
    IN IF Threw(vector) THEN v
       ELSE [x |-> FMul(v.x, vector.x), y |-> FMul(v.y, vector.y)]

Vector_magnitude(v) == FSqrt(FMul(v.x, v.x) + FMul(v.y, v.y))

\* normalize() without the test of the magnitude
Vector_normalize_NoGuard(v) == Vector_divide(v, JsNumber(Vector_magnitude(v)))

Vector_normalize(v) ==
    LET mag == Vector_magnitude(v)
    IN IF mag # 0 THEN Vector_divide(v, JsNumber(mag)) ELSE v

Vector_limit(v, minX, maxX, minY, maxY) ==
    [x |-> Max(minX, Min(v.x, maxX)), y |-> Max(minY, Min(v.y, maxY))]

----------------------------------------------------------------------------
(* The heap of one scan iteration: the three vectors of the raindrop and   *)
(* the objects made for one force factory call.                            *)

Refs == {"location", "velocity", "acceleration", "mass",
         "stateLocation", "stateVelocity", "stateAcceleration", "stateMass",
         "created", "fCopy"}

DropRefs == {"location", "velocity", "acceleration"}

Heap(drop) ==
    [r \in Refs |-> IF r \in DropRefs THEN drop[r] ELSE Vector_create(0, 0)]

\* the object at reference r now holds value val
Store(h, r, val) == [h EXCEPT ![r] = val]

\* Vector.copy handing back the object it was given
Vector_copy_Alias(h, v, fresh) == [heap |-> h, ref |-> v]

\* Vector.copy: a new object (at reference fresh) holding v's components.
\* The result names the heap after the call and the reference returned.
Vector_copy(h, v, fresh) == [heap |-> Store(h, fresh, h[v]), ref |-> fresh]

----------------------------------------------------------------------------
(* Configuration (rain.js).  Lengths, speeds and force constants are       *)
(* scaled numbers; raindropTtl is in ms; rainfallIntensity and fps are     *)
(* plain integers.                                                         *)

DEFAULT_CONFIG ==
    [width |-> Num(640),
     height |-> Num(480),
     fps |-> 30,
     gravity |-> Num(4),
     dragMagnitude |-> Num(1) \div 10,
     terminalVelocityRate |-> Num(10),
     raindropTtl |-> 1500,
     rainfallIntensity |-> 6,
     offScreenOffset |-> Num(200)]

\* the merge with the spreads exchanged, { ...config, ...DEFAULT_CONFIG }
attachToElement_DefaultsWin(userConfig) ==
    [k \in DOMAIN DEFAULT_CONFIG \cup DOMAIN userConfig |->
        IF k \in DOMAIN DEFAULT_CONFIG THEN DEFAULT_CONFIG[k] ELSE userConfig[k]]

\* { ...DEFAULT_CONFIG, ...config }
attachToElement(userConfig) ==
    [k \in DOMAIN DEFAULT_CONFIG \cup DOMAIN userConfig |->
        IF k \in DOMAIN userConfig THEN userConfig[k] ELSE DEFAULT_CONFIG[k]]

\* The configuration records callers pass in the model: small canvases,
\* short lifetimes and a high frame rate, so that a raindrop is spawned,
\* falls, rests and expires within MaxClock ms.
UserConfigs ==
    { [height |-> Num(10), fps |-> 2000, raindropTtl |-> 4,
       rainfallIntensity |-> 1],
      [height |-> Num(10), fps |-> 500, raindropTtl |-> 3,
       rainfallIntensity |-> 2],
      [height |-> Num(20), fps |-> 2000, raindropTtl |-> 3,
       rainfallIntensity |-> 1, terminalVelocityRate |-> Num(1)],
      [height |-> Num(30), fps |-> 2000, raindropTtl |-> 3,
       rainfallIntensity |-> 1, gravity |-> Num(-4),
       terminalVelocityRate |-> Num(2)],
      [height |-> 0, fps |-> 2000, raindropTtl |-> 3,
       rainfallIntensity |-> 1],
      [height |-> Num(10), fps |-> 2000, raindropTtl |-> 2,
       rainfallIntensity |-> 0] }

----------------------------------------------------------------------------
(* Raindrop (rain.js, const Raindrop) *)

\* a raindrop created at rest
Raindrop_create_AtRest(x, y, size, now, id) ==
    [id |-> id,
     location |-> Vector_create(x, y),
     acceleration |-> Vector_create(0, 0),
     velocity |-> Vector_create(0, 0),
     size |-> size,
     mass |-> FMul(size, size),
     createdAt |-> now,
     atRest |-> TRUE,
     updated |-> FALSE]

\* id stands for the identity of the created object; updated records that
\* Raindrop.update has been called on it.
Raindrop_create(x, y, size, now, id) ==
    [id |-> id,
     location |-> Vector_create(x, y),
     acceleration |-> Vector_create(0, 0),
     velocity |-> Vector_create(0, 0),
     size |-> size,
     mass |-> FMul(size, size),
     createdAt |-> now,
     atRest |-> FALSE,
     updated |-> FALSE]

\* applyForce that stores the force instead of adding it
Raindrop_applyForce_Assign(h, force, mass) ==
    LET h1 == Store(h, force, Vector_divide(h[force], JsNumber(mass)))
    IN Store(h1, "acceleration", h1[force])

\* force is the reference of the force object; the function divides that
\* object in place and adds it to the raindrop's acceleration.
Raindrop_applyForce(h, force, mass) ==
    LET h1 == Store(h, force, Vector_divide(h[force], JsNumber(mass)))
    IN Store(h1, "acceleration", Vector_add(h1["acceleration"], h1[force]))

\* update() that adds the acceleration to the velocity before the rest check
Raindrop_update_LateRestCheck(drop, c) ==
    LET v1 == Vector_add(drop.velocity, drop.acceleration)
    IN IF drop.atRest \/ drop.location.y >= c.height - drop.size
       THEN [drop EXCEPT !.velocity = v1, !.atRest = TRUE, !.updated = TRUE]
       ELSE LET terminalV == FMul(c.terminalVelocityRate, drop.size)
                v2 == Vector_limit(v1, -terminalV, terminalV,
                                   -terminalV, terminalV)
                l1 == Vector_add(drop.location, v2)
                l2 == Vector_limit(l1, -c.offScreenOffset,
                                   c.width + c.offScreenOffset,
                                   0, c.height - drop.size)
            IN [drop EXCEPT !.velocity = v2,
                            !.location = l2,
                            !.acceleration = Vector_multiply(@, JsNumber(0)),
                            !.updated = TRUE]

\* update() that does not bound the location
Raindrop_update_NoLocationLimit(drop, c) ==
    IF drop.atRest \/ drop.location.y >= c.height - drop.size
    THEN [drop EXCEPT !.atRest = TRUE, !.updated = TRUE]
    ELSE LET v1 == Vector_add(drop.velocity, drop.acceleration)
             terminalV == FMul(c.terminalVelocityRate, drop.size)
             v2 == Vector_limit(v1, -terminalV, terminalV, -terminalV, terminalV)
         IN [drop EXCEPT !.velocity = v2,
                         !.location = Vector_add(@, v2),
                         !.acceleration = Vector_multiply(@, JsNumber(0)),
                         !.updated = TRUE]

\* update() that keeps the acceleration
Raindrop_update_NoReset(drop, c) ==
    IF drop.atRest \/ drop.location.y >= c.height - drop.size
    THEN [drop EXCEPT !.atRest = TRUE, !.updated = TRUE]
    ELSE LET v1 == Vector_add(drop.velocity, drop.acceleration)
             terminalV == FMul(c.terminalVelocityRate, drop.size)
             v2 == Vector_limit(v1, -terminalV, terminalV, -terminalV, terminalV)
             l1 == Vector_add(drop.location, v2)
             l2 == Vector_limit(l1, -c.offScreenOffset,
                                c.width + c.offScreenOffset,
                                0, c.height - drop.size)
         IN [drop EXCEPT !.velocity = v2,
                         !.location = l2,
                         !.updated = TRUE]

\* update() that rests only below the floor line
Raindrop_update_StrictFloor(drop, c) ==
    IF drop.atRest \/ drop.location.y > c.height - drop.size
    THEN [drop EXCEPT !.atRest = TRUE, !.updated = TRUE]
    ELSE LET v1 == Vector_add(drop.velocity, drop.acceleration)
             terminalV == FMul(c.terminalVelocityRate, drop.size)
             v2 == Vector_limit(v1, -terminalV, terminalV, -terminalV, terminalV)
             l1 == Vector_add(drop.location, v2)
             l2 == Vector_limit(l1, -c.offScreenOffset,
                                c.width + c.offScreenOffset,
                                0, c.height - drop.size)
         IN [drop EXCEPT !.velocity = v2,
                         !.location = l2,
                         !.acceleration = Vector_multiply(@, JsNumber(0)),
                         !.updated = TRUE]

Raindrop_update(drop, c) ==
    IF drop.atRest \/ drop.location.y >= c.height - drop.size
    THEN [drop EXCEPT !.atRest = TRUE, !.updated = TRUE]
    ELSE LET v1 == Vector_add(drop.velocity, drop.acceleration)
             terminalV == FMul(c.terminalVelocityRate, drop.size)
             v2 == Vector_limit(v1, -terminalV, terminalV, -terminalV, terminalV)
             l1 == Vector_add(drop.location, v2)
             l2 == Vector_limit(l1, -c.offScreenOffset,
                                c.width + c.offScreenOffset,
                                0, c.height - drop.size)
         IN [drop EXCEPT !.velocity = v2,
                         !.location = l2,
                         !.acceleration = Vector_multiply(@, JsNumber(0)),
                         !.updated = TRUE]

----------------------------------------------------------------------------
(* Force factories.  state is [location, velocity: references; mass].  A   *)
(* factory returns the heap after its call and the reference of the        *)
(* vector it returns.                                                      *)

\* a gravity force that does not grow with the mass
gravityForceFactory_NoMass(c, h, state) ==
    [heap |-> Store(h, "created", Vector_create(0, c.gravity)),
     ref |-> "created"]

gravityForceFactory(c, h, state) ==
    [heap |-> Store(h, "created", Vector_create(0, FMul(c.gravity, state.mass))),
     ref |-> "created"]

dragForceFactory(c, h, state) ==
    LET v == state.velocity
        speed == Vector_magnitude(h[v])
        dragMagnitude == FMul(FMul(c.dragMagnitude, speed), speed)
        h1 == Store(h, v, Vector_multiply(h[v], JsNumber(Num(-1))))
        h2 == Store(h1, v, Vector_normalize(h1[v]))
        h3 == Store(h2, v, Vector_multiply(h2[v], JsNumber(dragMagnitude)))
    IN [heap |-> h3, ref |-> v]

\* the factories of rain.js, by name
Factories == {"gravity", "drag"}

\* factory(this.config, state)
CallFactory(factory, c, h, state) ==
    CASE factory = "gravity" -> gravityForceFactory(c, h, state)
      [] factory = "drag" -> dragForceFactory(c, h, state)

----------------------------------------------------------------------------
(* Rainfall (rain.js, class Rainfall) *)

\* getRandom(min, max) rounds to a whole number in [min, max].  What the
\* three getRandom calls of one __createRaindrop return (x, y, size) is
\* drawn from the ends of the three ranges.
RandomDraws(c) ==
    {[x |-> -c.offScreenOffset, y |-> Num(-500), size |-> Num(3)],
     [x |-> c.width + c.offScreenOffset, y |-> Num(-200), size |-> Num(4)]}

\* the new raindrop put in front (unshift) instead of pushed
__createRaindrop_Unshift(ds, c, now, rnd, id) ==
    <<Raindrop_create(rnd.x, rnd.y, rnd.size, now, id)>> \o ds

\* rnd is what the three getRandom calls return
__createRaindrop(ds, c, now, rnd, id) ==
    Append(ds, Raindrop_create(rnd.x, rnd.y, rnd.size, now, id))

\* the number of iterations of `for (i = 0; i < rainfallIntensity; i++)`
LayerSize(c) == IF c.rainfallIntensity > 0 THEN c.rainfallIntensity ELSE 0

RECURSIVE __createRaindropsLayer(_, _, _, _, _, _)
__createRaindropsLayer(ds, c, now, rnds, id, i) ==
    IF i < c.rainfallIntensity
    THEN __createRaindropsLayer(__createRaindrop(ds, c, now, rnds[i + 1], id + i),
                                c, now, rnds, id, i + 1)
    ELSE ds

\* `for (const factory of this.forceFactories)` from the k-th factory on:
\* the state is built of fresh copies, the factory is called, the force it
\* returns is applied.
RECURSIVE ForEachFactory(_, _, _, _, _)
ForEachFactory(h, factories, k, c, mass) ==
    IF k > Len(factories) THEN h
    ELSE LET l == Vector_copy(h, "location", "stateLocation")
             v == Vector_copy(l.heap, "velocity", "stateVelocity")
             state == [location |-> l.ref, velocity |-> v.ref, mass |-> mass]
             f == CallFactory(factories[k], c, v.heap, state)
         IN ForEachFactory(Raindrop_applyForce(f.heap, f.ref, mass),
                           factories, k + 1, c, mass)

\* the raindrop as the heap h holds it
FromHeap(drop, h) ==
    [drop EXCEPT !.location = h["location"],
                 !.velocity = h["velocity"],
                 !.acceleration = h["acceleration"]]

\* the scan iteration without the atRest test
ScanDrop_NoRestTest(drop, now, c, factories) ==
    IF now - drop.createdAt >= c.raindropTtl
    THEN [marked |-> TRUE, applied |-> <<>>, updates |-> 0,
          before |-> drop, forced |-> drop, after |-> drop]
    ELSE LET forced == FromHeap(drop,
                          ForEachFactory(Heap(drop), factories, 1, c, drop.mass))
         IN [marked |-> FALSE, applied |-> factories, updates |-> 1,
             before |-> drop, forced |-> forced,
             after |-> Raindrop_update(forced, c)]

\* One iteration of the scan loop on drop.  The result records the
\* iteration: marked (pushed on markedForDestruct), applied (the factories
\* whose force was applied, in order), updates (calls of Raindrop.update),
\* before / forced / after (the raindrop when the iteration starts, after
\* the force loop, when the iteration ends).
ScanDrop(drop, now, c, factories) ==
    IF now - drop.createdAt >= c.raindropTtl
    THEN [marked |-> TRUE, applied |-> <<>>, updates |-> 0,
          before |-> drop, forced |-> drop, after |-> drop]
    ELSE IF ~drop.atRest
    THEN LET forced == FromHeap(drop,
                          ForEachFactory(Heap(drop), factories, 1, c, drop.mass))
         IN [marked |-> FALSE, applied |-> factories, updates |-> 1,
             before |-> drop, forced |-> forced,
             after |-> Raindrop_update(forced, c)]
    ELSE [marked |-> FALSE, applied |-> <<>>, updates |-> 0,
          before |-> drop, forced |-> drop, after |-> drop]

\* a splice that never removes the first element
Splice_NotFirst(ds, idx) ==
    IF 0 < idx /\ idx < Len(ds)
    THEN SubSeq(ds, 1, idx) \o SubSeq(ds, idx + 2, Len(ds))
    ELSE ds

\* Array.prototype.splice(idx, 1), idx counted from 0
Splice(ds, idx) ==
    IF idx < Len(ds)
    THEN SubSeq(ds, 1, idx) \o SubSeq(ds, idx + 2, Len(ds))
    ELSE ds

\* an update that removes nothing
SpliceMarked_Keep(ds, markedForDestruct, k) == ds

\* `for (const idx of markedForDestruct) this.drops.splice(idx, 1)`
RECURSIVE SpliceMarked(_, _, _)
SpliceMarked(ds, markedForDestruct, k) ==
    IF k > Len(markedForDestruct) THEN ds
    ELSE SpliceMarked(Splice(ds, markedForDestruct[k]), markedForDestruct, k + 1)

\* the indices (from 0) of the marked iterations, in scan order
RECURSIVE MarkedIndices(_, _)
MarkedIndices(entries, i) ==
    IF i > Len(entries) THEN <<>>
    ELSE (IF entries[i].marked THEN <<i - 1>> ELSE <<>>)
         \o MarkedIndices(entries, i + 1)

Rainfall_update(ds, c, factories, now, rnds, id) ==
    LET spawned == __createRaindropsLayer(ds, c, now, rnds, id, 0)
        entries == [i \in 1..Len(spawned) |->
                       ScanDrop(spawned[i], now, c, factories)]
        scanned == [i \in 1..Len(spawned) |-> entries[i].after]
        markedForDestruct == MarkedIndices(entries, 1)
    IN [drops |-> SpliceMarked(scanned, markedForDestruct, 1),
        spawnLen |-> Len(spawned),
        scan |-> entries]

----------------------------------------------------------------------------
(* The program: attachToElement, initRainfall, animate *)

Init ==
    /\ config \in {attachToElement(u) : u \in UserConfigs}
    /\ drops = <<>>
    /\ forceFactories = <<>>
    /\ clock = 0
    /\ then = 0
    /\ pc = "setup"
    /\ nextId = 1
    /\ ticked = FALSE
    /\ lastNow = 0
    /\ preLen = 0
    /\ spawnLen = 0
    /\ scan = <<>>
    /\ frameTicks = 0
    /\ step = 0

\* rain.applyForceFactory(factory).  initRainfall registers gravity, then
\* drag; the model lets the caller register any of the factories, each at
\* most once, in any order.
applyForceFactory(factory) ==
    /\ pc = "setup"
    /\ \A k \in 1..Len(forceFactories) : forceFactories[k] # factory
    /\ forceFactories' = Append(forceFactories, factory)
    /\ UNCHANGED <<config, drops, clock, then, pc, nextId,
                   ticked, lastNow, preLen, spawnLen, scan,
                   frameTicks, step>>

fpsInterval == FDiv(Num(1000), Num(config.fps))

\* draw(): rain.update(), then the drops are painted
draw ==
    \E rnds \in [1..LayerSize(config) -> RandomDraws(config)] :
        LET r == Rainfall_update(drops, config, forceFactories, clock,
                                 rnds, nextId)
        IN /\ drops' = r.drops
           /\ nextId' = nextId + LayerSize(config)
           /\ ticked' = TRUE
           /\ lastNow' = clock
           /\ preLen' = Len(drops)
           /\ spawnLen' = r.spawnLen
           /\ scan' = r.scan

\* animate without the `elapsed > fpsInterval` test: every run draws
Frame_Unthrottled(t) ==
    LET now == clock
        elapsed == Num(now) - t
    IN /\ then' = Num(now) - (elapsed % fpsInterval)
       /\ draw
       /\ frameTicks' = 1

\* the body of animate(fpsInterval, then, elapsed), entered with `then` = t
Frame(t) ==
    LET now == clock
        elapsed == Num(now) - t
    IN IF elapsed > fpsInterval
       THEN /\ then' = Num(now) - (elapsed % fpsInterval)
            /\ draw
            /\ frameTicks' = 1
       ELSE /\ then' = t
            /\ UNCHANGED <<drops, nextId, ticked, lastNow, preLen,
                           spawnLen, scan>>
            /\ frameTicks' = 0

\* startAnimating(config.fps): the first call of animate, then = Date.now()
startAnimating ==
    /\ pc = "setup"
    /\ pc' = "animating"
    /\ Frame(Num(clock))
    /\ UNCHANGED <<config, forceFactories, clock, step>>

\* a frame callback scheduled with requestAnimationFrame runs
animate ==
    /\ pc = "animating"
    /\ Frame(then)
    /\ UNCHANGED <<config, forceFactories, clock, pc, step>>

\* time passes between two frame callbacks
Advance ==
    /\ pc = "animating"
    /\ \E d \in 1..MaxStep :
          /\ clock + d <= MaxClock
          /\ clock' = clock + d
    /\ UNCHANGED <<config, drops, forceFactories, then, pc, nextId,
                   ticked, lastNow, preLen, spawnLen, scan,
                   frameTicks, step>>

Next ==
    \/ \E factory \in Factories : applyForceFactory(factory)
    \/ startAnimating
    \/ animate
    \/ Advance

Spec == Init /\ [][Next]_vars

----------------------------------------------------------------------------
(* The snow script with three factories (src/unnamed/part_001): Vector     *)
(* with rotate, Force, the gravity, wind and drag factories, Snowflake and *)
(* System.  Its Vector methods add, divide, multiply, magnitude,           *)
(* normalize, limit and copy compute what the functions of the same name   *)
(* above compute.                                                          *)

Snow_DEFAULT_CONFIG ==
    [width |-> Num(640),
     height |-> Num(480),
     fps |-> 30,
     terminalVelocityRate |-> Num(5),
     snowflakeTtl |-> 30000,
     intensity |-> 3,
     offScreenOffset |-> Num(300)]

Snow_attachToElement(userConfig) ==
    [k \in DOMAIN Snow_DEFAULT_CONFIG \cup DOMAIN userConfig |->
        IF k \in DOMAIN userConfig THEN userConfig[k]
        ELSE Snow_DEFAULT_CONFIG[k]]

\* the configuration records callers pass in the model
Snow_UserConfigs ==
    { [height |-> Num(21) \div 10, fps |-> 2000, snowflakeTtl |-> 3,
       intensity |-> 0],
      [height |-> Num(21) \div 10, fps |-> 1000, snowflakeTtl |-> 2,
       intensity |-> 1] }

\* Math.cos and Math.sin of 2 * PI * (degrees / 360), for the one angle the
\* script rotates by
CosDeg(degrees) == CASE degrees = 330 -> (866 * Scale) \div 1000

SinDeg(degrees) == CASE degrees = 330 -> -(Scale \div 2)

\* rotate(degrees): this.y is computed from the new this.x
Vector_rotate(v, degrees) ==
    LET cos == CosDeg(degrees)
        sin == SinDeg(degrees)
        x1 == FMul(v.x, cos) - FMul(v.y, sin)
        y1 == FMul(x1, sin) + FMul(v.y, cos)
    IN [x |-> x1, y |-> y1]

GRAVITY_C == Num(8) \div 100

WIND_D == 330

WIND_MAG == Num(8) \div 100

DRAG_C == Num(1) \div 10

\* new Force(v.x, v.y, name): a new object holding v's components
Force_create(h, v) ==
    [heap |-> Store(h, "created", Vector_create(v.x, v.y)), ref |-> "created"]

\* state is [acceleration, velocity: references; mass]
Snow_gravityForceFactory(h, state) ==
    Force_create(h, Vector_multiply(Vector_create(0, GRAVITY_C),
                                    JsNumber(state.mass)))

Snow_windForceFactory(h, state) ==
    Force_create(h, Vector_rotate(Vector_create(WIND_MAG, 0), WIND_D))

\* v.multiply(-1); v.normalize(); v.multiply(dragMagnitude)
Snow_dragVector(v, dragMagnitude) ==
    Vector_multiply(Vector_normalize(Vector_multiply(v, JsNumber(Num(-1)))),
                    JsNumber(dragMagnitude))

\* DRAG_C * speed * speed
Snow_dragMagnitude(speed) == FMul(FMul(DRAG_C, speed), speed)

\* v is state.velocity itself: the factory changes that object in place
Snow_dragForceFactory(h, state) ==
    Force_create(
        Store(h, state.velocity,
              Snow_dragVector(h[state.velocity],
                              Snow_dragMagnitude(Vector_magnitude(h[state.velocity])))),
        Snow_dragVector(h[state.velocity],
                        Snow_dragMagnitude(Vector_magnitude(h[state.velocity]))))

Snow_CallFactory(factory, h, state) ==
    CASE factory = "gravity" -> Snow_gravityForceFactory(h, state)
      [] factory = "drag" -> Snow_dragForceFactory(h, state)
      [] factory = "wind" -> Snow_windForceFactory(h, state)

Snowflake_create(x, y, size, translucency, now, id) ==
    [id |-> id,
     location |-> Vector_create(x, y),
     acceleration |-> Vector_create(0, 0),
     velocity |-> Vector_create(0, 0),
     size |-> size,
     translucency |-> translucency,
     mass |-> FMul(size, size),
     createdAt |-> now,
     atRest |-> FALSE,
     updated |-> FALSE]

\* applyForce(force): a copy of the force is divided and added
Snowflake_applyForce(h, force, mass) ==
    LET fCopy == Vector_copy(h, force, "fCopy")
        h1 == Store(fCopy.heap, fCopy.ref,
                    Vector_divide(fCopy.heap[fCopy.ref], JsNumber(mass)))
    IN Store(h1, "acceleration", Vector_add(h1["acceleration"], h1[fCopy.ref]))

Snowflake_update(sf, c) ==
    IF sf.atRest \/ sf.location.y >= c.height - sf.size
    THEN [sf EXCEPT !.atRest = TRUE, !.updated = TRUE]
    ELSE LET v1 == Vector_add(sf.velocity, sf.acceleration)
             terminalV == FMul(c.terminalVelocityRate, sf.size)
             v2 == Vector_limit(v1, 0, terminalV, 0, terminalV)
             l1 == Vector_add(sf.location, v2)
             l2 == Vector_limit(l1, FMul(c.offScreenOffset, Num(-1)),
                                c.width + c.offScreenOffset,
                                0, c.height - sf.size)
         IN [sf EXCEPT !.velocity = v2,
                       !.location = l2,
                       !.acceleration = Vector_multiply(@, JsNumber(0)),
                       !.updated = TRUE]

\* getRandom(min, max) of this script does not round.  What the four
\* getRandom calls of one __createSnowflake return:
Snow_RandomDraws(c) ==
    {[x |-> FMul(c.offScreenOffset, Num(-1)), y |-> Num(-500), size |-> Num(1),
      translucency |-> Num(1) \div 10],
     [x |-> c.width + c.offScreenOffset, y |-> Num(-200), size |-> Num(2),
      translucency |-> Num(1)]}

System__createSnowflake(sfs, c, now, rnd, id) ==
    Append(sfs, Snowflake_create(rnd.x, rnd.y, rnd.size, rnd.translucency,
                                 now, id))

\* the number of iterations of `for (i = 0; i <= intensity; i++)`
Snow_LayerSize(c) == IF c.intensity >= 0 THEN c.intensity + 1 ELSE 0

RECURSIVE System__createSnowflakeLayer(_, _, _, _, _, _)
System__createSnowflakeLayer(sfs, c, now, rnds, id, i) ==
    IF i <= c.intensity
    THEN System__createSnowflakeLayer(
             System__createSnowflake(sfs, c, now, rnds[i + 1], id + i),
             c, now, rnds, id, i + 1)
    ELSE sfs

RECURSIVE Snow_ForEachFactory(_, _, _, _)
Snow_ForEachFactory(h, factories, k, mass) ==
    IF k > Len(factories) THEN h
    ELSE LET a == Vector_copy(h, "acceleration", "stateAcceleration")
             v == Vector_copy(a.heap, "velocity", "stateVelocity")
             state == [acceleration |-> a.ref, velocity |-> v.ref, mass |-> mass]
             f == Snow_CallFactory(factories[k], v.heap, state)
         IN Snow_ForEachFactory(Snowflake_applyForce(f.heap, f.ref, mass),
                                factories, k + 1, mass)

\* one iteration of the scan loop of System.update
Snow_ScanFlake(sf, now, c, factories) ==
    IF now - sf.createdAt > c.snowflakeTtl
    THEN [marked |-> TRUE, applied |-> <<>>, updates |-> 0,
          before |-> sf, forced |-> sf, after |-> sf]
    ELSE IF ~sf.atRest
    THEN LET forced == FromHeap(sf,
                          Snow_ForEachFactory(Heap(sf), factories, 1, sf.mass))
         IN [marked |-> FALSE, applied |-> factories, updates |-> 1,
             before |-> sf, forced |-> forced,
             after |-> Snowflake_update(forced, c)]
    ELSE [marked |-> FALSE, applied |-> <<>>, updates |-> 0,
          before |-> sf, forced |-> sf, after |-> sf]

System_update(sfs, c, factories, now, rnds, id) ==
    LET spawned == System__createSnowflakeLayer(sfs, c, now, rnds, id, 0)
        entries == [i \in 1..Len(spawned) |->
                       Snow_ScanFlake(spawned[i], now, c, factories)]
        scanned == [i \in 1..Len(spawned) |-> entries[i].after]
        markedForDestruct == MarkedIndices(entries, 1)
    IN [drops |-> SpliceMarked(scanned, markedForDestruct, 1),
        spawnLen |-> Len(spawned),
        scan |-> entries]

\* attachToElement of this script; drops holds System.snowflakes
Snow_Init ==
    /\ config \in {Snow_attachToElement(u) : u \in Snow_UserConfigs}
    /\ drops = <<>>
    /\ forceFactories = <<>>
    /\ clock = 0
    /\ then = 0
    /\ pc = "setup"
    /\ nextId = 1
    /\ ticked = FALSE
    /\ lastNow = 0
    /\ preLen = 0
    /\ spawnLen = 0
    /\ scan = <<>>
    /\ frameTicks = 0
    /\ step = 0

Snow_draw ==
    \E rnds \in [1..Snow_LayerSize(config) -> Snow_RandomDraws(config)] :
        LET r == System_update(drops, config, forceFactories, clock,
                               rnds, nextId)
        IN /\ drops' = r.drops
           /\ nextId' = nextId + Snow_LayerSize(config)
           /\ ticked' = TRUE
           /\ lastNow' = clock
           /\ preLen' = Len(drops)
           /\ spawnLen' = r.spawnLen
           /\ scan' = r.scan

\* animate(then, fpsInterval, elapsed) of this script, entered with then = t
Snow_Frame(t) ==
    LET now == clock
        elapsed == Num(now) - t
    IN IF elapsed > fpsInterval
       THEN /\ then' = Num(now) - (elapsed % fpsInterval)
            /\ Snow_draw
            /\ frameTicks' = 1
       ELSE /\ then' = t
            /\ UNCHANGED <<drops, nextId, ticked, lastNow, preLen,
                           spawnLen, scan>>
            /\ frameTicks' = 0

\* initializeSystem: the three factories are registered, animation starts
initializeSystem ==
    /\ pc = "setup"
    /\ forceFactories' = <<"gravity", "drag", "wind">>
    /\ pc' = "animating"
    /\ Snow_Frame(Num(clock))
    /\ UNCHANGED <<config, clock, step>>

Snow_animate ==
    /\ pc = "animating"
    /\ Snow_Frame(then)
    /\ UNCHANGED <<config, forceFactories, clock, pc, step>>

Snow_Next ==
    \/ initializeSystem
    \/ Snow_animate
    \/ Advance

SpecSnow == Snow_Init /\ [][Snow_Next]_vars

\* Snowflake.update of this script called on a snowflake of any velocity and
\* acceleration
SnowflakeInputs ==
    {[Snowflake_create(0, y, size, Num(1), 0, 1)
         EXCEPT !.velocity = Vector_create(vx, vy),
                !.acceleration = Vector_create(ax, ay)] :
        y \in {Num(-200), 0}, size \in {Num(1), Num(2)},
        vx \in {Num(-1), 0, Num(1)}, vy \in {Num(-1), 0, Num(1)},
        ax \in {Num(-2), 0, Num(9)}, ay \in {Num(-2), 0, Num(9)}}

SnowflakeUpdate_Init ==
    /\ config = Snow_attachToElement([height |-> Num(10)])
    /\ drops \in {<<sf>> : sf \in SnowflakeInputs}
    /\ forceFactories = <<>>
    /\ clock = 0
    /\ then = 0
    /\ pc = "call"
    /\ nextId = 2
    /\ ticked = FALSE
    /\ lastNow = 0
    /\ preLen = 1
    /\ spawnLen = 1
    /\ scan = <<>>
    /\ frameTicks = 0
    /\ step = 0

SnowflakeUpdate_Call ==
    /\ pc = "call"
    /\ pc' = "returned"
    /\ drops' = <<Snowflake_update(drops[1], config)>>
    /\ scan' = <<[marked |-> FALSE, applied |-> <<>>, updates |-> 1,
                  before |-> drops[1], forced |-> drops[1],
                  after |-> drops'[1]]>>
    /\ UNCHANGED <<config, forceFactories, clock, then, nextId, ticked,
                   lastNow, preLen, spawnLen,
                   frameTicks, step>>

SpecSnowflakeUpdate == SnowflakeUpdate_Init /\ [][SnowflakeUpdate_Call]_vars

----------------------------------------------------------------------------
(* The snow script with Force classes (src/unnamed/part_003): GravityForce, *)
(* WindForce, DragForce, Snowflake and System.  A snowflake of this script  *)
(* has no atRest field and its mass is the vector (size^2, size^2).         *)

Class_DEFAULT_CONFIG ==
    [width |-> Num(640),
     height |-> Num(480),
     fps |-> 30,
     terminalVelocityRate |-> Num(5),
     snowflakeTtl |-> 30000,
     intensity |-> 3]

Class_attachToElement(userConfig) ==
    [k \in DOMAIN Class_DEFAULT_CONFIG \cup DOMAIN userConfig |->
        IF k \in DOMAIN userConfig THEN userConfig[k]
        ELSE Class_DEFAULT_CONFIG[k]]

\* the configuration records callers pass in the model
Class_UserConfigs ==
    { [height |-> Num(21) \div 10, fps |-> 2000, snowflakeTtl |-> 3,
       intensity |-> 0],
      [height |-> Num(21) \div 10, fps |-> 1000, snowflakeTtl |-> 2,
       intensity |-> 1] }

\* the Force objects: their vector, and isVariable
GravityForce == [x |-> 0, y |-> Num(8) \div 100, isVariable |-> TRUE]

WindForce == [x |-> Num(5) \div 100, y |-> 0, isVariable |-> FALSE]

DragForce == [x |-> 0, y |-> 0, isVariable |-> TRUE]

ForceObject(name) ==
    CASE name = "gravity" -> GravityForce
      [] name = "drag" -> DragForce
      [] name = "wind" -> WindForce

\* state is [acceleration, velocity, mass: references]
GravityForce_calculate(h, state) ==
    [heap |-> Store(h, "created",
                    Vector_multiply(Vector_create(GravityForce.x, GravityForce.y),
                                    h[state.mass])),
     ref |-> "created"]

DragForce_calculate(h, state) ==
    LET drag == state.velocity
        speed == Vector_magnitude(h[state.velocity])
        dragMagnitude == FMul(FMul(Num(1) \div 10, speed), speed)
        h1 == Store(h, drag,
                    Vector_multiply(h[drag], Vector_create(Num(-1), Num(-1))))
        h2 == Store(h1, drag, Vector_normalize(h1[drag]))
        h3 == Store(h2, drag,
                    Vector_multiply(h2[drag],
                                    Vector_create(dragMagnitude, dragMagnitude)))
    IN [heap |-> h3, ref |-> drag]

\* !f.isVariable ? f : f.calculate({...}); a constant force object is
\* handed over as it is (applyForce copies it)
Class_ForceFor(name, h, state) ==
    IF ~ForceObject(name).isVariable
    THEN [heap |-> Store(h, "created",
                         Vector_create(ForceObject(name).x, ForceObject(name).y)),
          ref |-> "created"]
    ELSE CASE name = "gravity" -> GravityForce_calculate(h, state)
           [] name = "drag" -> DragForce_calculate(h, state)

ClassSnowflake_create(x, y, size, translucency, now, id) ==
    [id |-> id,
     location |-> Vector_create(x, y),
     acceleration |-> Vector_create(0, 0),
     velocity |-> Vector_create(0, 0),
     size |-> size,
     translucency |-> translucency,
     mass |-> Vector_create(FMul(size, size), FMul(size, size)),
     createdAt |-> now,
     updated |-> FALSE]

\* mass is the reference of the mass vector
ClassSnowflake_applyForce(h, force, mass) ==
    LET fCopy == Vector_copy(h, force, "fCopy")
        h1 == Store(fCopy.heap, fCopy.ref,
                    Vector_divide(fCopy.heap[fCopy.ref], h[mass]))
    IN Store(h1, "acceleration", Vector_add(h1["acceleration"], h1[fCopy.ref]))

ClassSnowflake_update(sf, c) ==
    IF sf.location.y >= c.height - sf.size
    THEN [sf EXCEPT !.updated = TRUE]
    ELSE LET v1 == Vector_add(sf.velocity, sf.acceleration)
             terminalV == FMul(c.terminalVelocityRate, sf.size)
             v2 == Vector_limit(v1, 0, terminalV, 0, terminalV)
             l1 == Vector_add(sf.location, v2)
             l2 == Vector_limit(l1, Num(-300), c.width + Num(300),
                                0, c.height - sf.size)
         IN [sf EXCEPT !.velocity = v2,
                       !.location = l2,
                       !.acceleration = Vector_create(0, 0),
                       !.updated = TRUE]

\* what the four getRandom calls of one __createSnowflake return
Class_RandomDraws(c) ==
    {[x |-> Num(-300), y |-> Num(-1000), size |-> Num(1),
      translucency |-> Num(1) \div 10],
     [x |-> c.width + Num(300), y |-> Num(-500), size |-> Num(2),
      translucency |-> Num(1)]}

ClassSystem__createSnowflake(sfs, c, now, rnd, id) ==
    Append(sfs, ClassSnowflake_create(rnd.x, rnd.y, rnd.size,
                                      rnd.translucency, now, id))

RECURSIVE ClassSystem__createSnowflakeLayer(_, _, _, _, _, _)
ClassSystem__createSnowflakeLayer(sfs, c, now, rnds, id, i) ==
    IF i <= c.intensity
    THEN ClassSystem__createSnowflakeLayer(
             ClassSystem__createSnowflake(sfs, c, now, rnds[i + 1], id + i),
             c, now, rnds, id, i + 1)
    ELSE sfs

\* the heap of a scan iteration of this script holds the mass vector too
Class_Heap(sf) == [Heap(sf) EXCEPT !["mass"] = sf.mass]

RECURSIVE Class_ForEachForce(_, _, _)
Class_ForEachForce(h, forces, k) ==
    IF k > Len(forces) THEN h
    ELSE LET a == Vector_copy(h, "acceleration", "stateAcceleration")
             v == Vector_copy(a.heap, "velocity", "stateVelocity")
             m == Vector_copy(v.heap, "mass", "stateMass")
             state == [acceleration |-> a.ref, velocity |-> v.ref,
                       mass |-> m.ref]
             f == Class_ForceFor(forces[k], m.heap, state)
         IN Class_ForEachForce(ClassSnowflake_applyForce(f.heap, f.ref, "mass"),
                               forces, k + 1)

\* one iteration of the scan loop of System.update
Class_ScanFlake(sf, now, c, forces) ==
    IF now - sf.createdAt > c.snowflakeTtl
    THEN [marked |-> TRUE, applied |-> <<>>, updates |-> 0,
          before |-> sf, forced |-> sf, after |-> sf]
    ELSE LET forced == FromHeap(sf, Class_ForEachForce(Class_Heap(sf), forces, 1))
         IN [marked |-> FALSE, applied |-> forces, updates |-> 1,
             before |-> sf, forced |-> forced,
             after |-> ClassSnowflake_update(forced, c)]

ClassSystem_update(sfs, c, forces, now, rnds, id) ==
    LET spawned == ClassSystem__createSnowflakeLayer(sfs, c, now, rnds, id, 0)
        entries == [i \in 1..Len(spawned) |->
                       Class_ScanFlake(spawned[i], now, c, forces)]
        scanned == [i \in 1..Len(spawned) |-> entries[i].after]
        markedForDestruct == MarkedIndices(entries, 1)
    IN [drops |-> SpliceMarked(scanned, markedForDestruct, 1),
        spawnLen |-> Len(spawned),
        scan |-> entries]

\* attachToElement of this script; drops holds System.snowflakes and
\* forceFactories holds System.forces, by name
Class_Init ==
    /\ config \in {Class_attachToElement(u) : u \in Class_UserConfigs}
    /\ drops = <<>>
    /\ forceFactories = <<>>
    /\ clock = 0
    /\ then = 0
    /\ pc = "setup"
    /\ nextId = 1
    /\ ticked = FALSE
    /\ lastNow = 0
    /\ preLen = 0
    /\ spawnLen = 0
    /\ scan = <<>>
    /\ frameTicks = 0
    /\ step = 0

Class_draw ==
    \E rnds \in [1..Snow_LayerSize(config) -> Class_RandomDraws(config)] :
        LET r == ClassSystem_update(drops, config, forceFactories, clock,
                                    rnds, nextId)
        IN /\ drops' = r.drops
           /\ nextId' = nextId + Snow_LayerSize(config)
           /\ ticked' = TRUE
           /\ lastNow' = clock
           /\ preLen' = Len(drops)
           /\ spawnLen' = r.spawnLen
           /\ scan' = r.scan

Class_Frame(t) ==
    LET now == clock
        elapsed == Num(now) - t
    IN IF elapsed > fpsInterval
       THEN /\ then' = Num(now) - (elapsed % fpsInterval)
            /\ Class_draw
            /\ frameTicks' = 1
       ELSE /\ then' = t
            /\ UNCHANGED <<drops, nextId, ticked, lastNow, preLen,
                           spawnLen, scan>>
            /\ frameTicks' = 0

\* initializeSystem: gravity, drag and wind are registered, animation starts
Class_initializeSystem ==
    /\ pc = "setup"
    /\ forceFactories' = <<"gravity", "drag", "wind">>
    /\ pc' = "animating"
    /\ Class_Frame(Num(clock))
    /\ UNCHANGED <<config, clock, step>>

Class_animate ==
    /\ pc = "animating"
    /\ Class_Frame(then)
    /\ UNCHANGED <<config, forceFactories, clock, pc, step>>

Class_Next ==
    \/ Class_initializeSystem
    \/ Class_animate
    \/ Advance

SpecClass == Class_Init /\ [][Class_Next]_vars

----------------------------------------------------------------------------
(* The first snow script (src/unnamed/part_002, first function): a Vector  *)
(* whose operands are always vectors, and a Snowflake whose mass is a      *)
(* getter.  Vector.copy makes a new object, so applyForce leaves the force *)
(* it is given as it was.                                                  *)

Old_Vector_add(v, vector) == [x |-> v.x + vector.x, y |-> v.y + vector.y]

Old_Vector_multiply(v, vector) ==
    [x |-> FMul(v.x, vector.x), y |-> FMul(v.y, vector.y)]

OldSnowflake_create(x, y, size, id) ==
    [id |-> id,
     location |-> Vector_create(x, y),
     acceleration |-> Vector_create(0, 0),
     velocity |-> Vector_create(0, 0),
     size |-> size,
     updated |-> FALSE]

\* get mass()
OldSnowflake_mass(sf) == Vector_create(sf.size, sf.size)

\* applyForce(force): fCopy = force.copy(); fCopy.multiply(this.mass)
OldSnowflake_applyForce(sf, force) ==
    [sf EXCEPT !.acceleration =
        Old_Vector_add(@, Old_Vector_multiply(force, OldSnowflake_mass(sf)))]

Old_DEFAULT_CONFIG ==
    [width |-> Num(640), height |-> Num(480), fps |-> 30,
     terminalVelocity |-> Num(15)]

OldSnowflake_update(sf, c) ==
    LET v1 == Vector_limit(Old_Vector_add(sf.velocity, sf.acceleration),
                           0, c.terminalVelocity, 0, c.terminalVelocity)
    IN [sf EXCEPT !.velocity = v1,
                  !.location = Vector_limit(Old_Vector_add(@, v1),
                                            0, c.width, 0, c.height - sf.size),
                  !.acceleration = Vector_create(0, 0),
                  !.updated = TRUE]

\* the GravityForce of this script, and other forces a caller may hand to
\* applyForce
OldForces ==
    {Vector_create(0, Num(8) \div 100), Vector_create(0, Num(8)),
     Vector_create(Num(-2), Num(1)), Vector_create(Num(4), 0)}

\* snowflakes as System.__initialize makes them (y = -20), some with an
\* acceleration left by an earlier applyForce
OldSnowflakeInputs ==
    {[OldSnowflake_create(x, Num(-20), size, 1)
         EXCEPT !.acceleration = Vector_create(0, ay)] :
        x \in {0, Num(640)}, size \in {Num(1), Num(2), Num(3)},
        ay \in {0, Num(1), Num(3)}}

OldSnowflake_Init ==
    /\ config = Old_DEFAULT_CONFIG
    /\ drops \in {<<sf>> : sf \in OldSnowflakeInputs}
    /\ forceFactories = <<>>
    /\ clock = 0
    /\ then = 0
    /\ pc = "call"
    /\ nextId = 2
    /\ ticked = FALSE
    /\ lastNow = 0
    /\ preLen = 1
    /\ spawnLen = 1
    /\ scan = <<>>
    /\ frameTicks = 0
    /\ step = 0

\* sf.applyForce(f), as System.update calls it
OldSnowflake_applyForce_Call ==
    /\ pc = "call"
    /\ \E force \in OldForces :
          /\ drops' = <<OldSnowflake_applyForce(drops[1], force)>>
          /\ scan' = <<[op |-> "applyForce", force |-> force,
                        before |-> drops[1], after |-> drops'[1]]>>
    /\ pc' = "applied"
    /\ UNCHANGED <<config, forceFactories, clock, then, nextId, ticked,
                   lastNow, preLen, spawnLen,
                   frameTicks, step>>

\* sf.update(), as System.update calls it after the forces
OldSnowflake_update_Call ==
    /\ pc = "applied"
    /\ drops' = <<OldSnowflake_update(drops[1], config)>>
    /\ scan' = <<[op |-> "update", force |-> Vector_create(0, 0),
                  before |-> drops[1], after |-> drops'[1]]>>
    /\ pc' = "returned"
    /\ UNCHANGED <<config, forceFactories, clock, then, nextId, ticked,
                   lastNow, preLen, spawnLen,
                   frameTicks, step>>

OldSnowflake_Next ==
    \/ OldSnowflake_applyForce_Call
    \/ OldSnowflake_update_Call

SpecOldSnowflake == OldSnowflake_Init /\ [][OldSnowflake_Next]_vars

----------------------------------------------------------------------------
(* Calls of the Vector functions of rain.js on any target and any operand. *)
(* A call is logged in scan: the function, the target before the call, the *)
(* operand, the target after the call, and whether the call threw.         *)

VectorTargets ==
    {Vector_create(x, y) : x \in {Num(-3), 0, Num(4)}, y \in {Num(-3), 0, Num(4)}}

\* numbers, vectors, an object with no y, a string
VectorOperands ==
    {JsNumber(0), JsNumber(Num(2)), JsNumber(Num(-1)),
     Vector_create(0, 0), Vector_create(Num(2), 0), Vector_create(Num(2), Num(5)),
     [x |-> Num(1)], [string |-> "a"]}

\* the throw statement of __vectorize is reached
Vector_throws(arg) == Threw(__vectorize(arg))

VectorCalls_Init ==
    /\ config = attachToElement([height |-> Num(10)])
    /\ drops = <<>>
    /\ forceFactories = <<>>
    /\ clock = 0
    /\ then = 0
    /\ pc = "call"
    /\ nextId = 1
    /\ ticked = FALSE
    /\ lastNow = 0
    /\ preLen = 0
    /\ spawnLen = 0
    /\ scan = <<>>
    /\ frameTicks = 0
    /\ step = 0

VectorCalls_Return(entry) ==
    /\ pc = "call"
    /\ pc' = "returned"
    /\ scan' = <<entry>>
    /\ UNCHANGED <<config, drops, forceFactories, clock, then, nextId,
                   ticked, lastNow, preLen, spawnLen,
                   frameTicks, step>>

Vector_add_Call ==
    \E v \in VectorTargets, arg \in VectorOperands :
        VectorCalls_Return([op |-> "add", target |-> v, arg |-> arg,
                            result |-> Vector_add(v, arg),
                            threw |-> Vector_throws(arg)])

Vector_divide_Call ==
    \E v \in VectorTargets, arg \in VectorOperands :
        VectorCalls_Return([op |-> "divide", target |-> v, arg |-> arg,
                            result |-> Vector_divide(v, arg),
                            threw |-> Vector_throws(arg)])

Vector_multiply_Call ==
    \E v \in VectorTargets, arg \in VectorOperands :
        VectorCalls_Return([op |-> "multiply", target |-> v, arg |-> arg,
                            result |-> Vector_multiply(v, arg),
                            threw |-> Vector_throws(arg)])

Vector_normalize_Call ==
    \E v \in VectorTargets :
        VectorCalls_Return([op |-> "normalize", target |-> v,
                            arg |-> JsNumber(0),
                            result |-> Vector_normalize(v),
                            threw |-> FALSE])

VectorCalls_Next ==
    \/ Vector_add_Call
    \/ Vector_divide_Call
    \/ Vector_multiply_Call
    \/ Vector_normalize_Call

SpecVector == VectorCalls_Init /\ [][VectorCalls_Next]_vars

----------------------------------------------------------------------------
(* One raindrop of rain.js under the forces of any registered factory: the *)
(* scan iteration of Rainfall.update with a factory that returns a given   *)
(* force vector, repeated tick after tick.                                 *)

\* what a factory registered with applyForceFactory may return
MotionForces ==
    {Vector_create(Num(-144), 0), Vector_create(Num(144), Num(36)),
     Vector_create(0, Num(36))}

\* drop.applyForce(factory(config, state)) with a factory returning force
Raindrop_forceWith(drop, force) ==
    FromHeap(drop, Raindrop_applyForce(Store(Heap(drop), "created", force),
                                       "created", drop.mass))

\* the scan iteration on a raindrop younger than raindropTtl (1500 ms)
Raindrop_scanWith(drop, force, c) ==
    IF ~drop.atRest
    THEN [marked |-> FALSE, applied |-> <<>>, updates |-> 1,
          before |-> drop, forced |-> Raindrop_forceWith(drop, force),
          after |-> Raindrop_update(Raindrop_forceWith(drop, force), c)]
    ELSE [marked |-> FALSE, applied |-> <<>>, updates |-> 0,
          before |-> drop, forced |-> drop, after |-> drop]

RaindropMotion_Init ==
    /\ config = attachToElement([height |-> Num(10)])
    /\ drops \in {__createRaindrop(<<>>, config, 0, rnd, 1) :
                     rnd \in RandomDraws(config)}
    /\ forceFactories = <<>>
    /\ clock = 0
    /\ then = 0
    /\ pc = "animating"
    /\ nextId = 2
    /\ ticked = FALSE
    /\ lastNow = 0
    /\ preLen = 1
    /\ spawnLen = 1
    /\ scan = <<>>
    /\ frameTicks = 0
    /\ step = 0

RaindropMotion_Tick ==
    /\ clock < MaxClock
    /\ clock' = clock + 1
    /\ \E force \in MotionForces :
          /\ scan' = <<Raindrop_scanWith(drops[1], force, config)>>
          /\ drops' = <<scan'[1].after>>
    /\ UNCHANGED <<config, forceFactories, then, pc, nextId, ticked,
                   lastNow, preLen, spawnLen,
                   frameTicks, step>>

SpecRaindropMotion == RaindropMotion_Init /\ [][RaindropMotion_Tick]_vars

----------------------------------------------------------------------------
(* Rainfall.update invoked at a fixed clock step (rain.js, Rainfall.update  *)
(* as initRainfall sets it up).  The scheduler is reduced to what the      *)
(* population sees of it: update() runs at Date.now() = step, 2 * step,    *)
(* ..., with gravity and drag registered.                                  *)

FixedStep_UserConfigs ==
    { [height |-> Num(10), raindropTtl |-> 1, rainfallIntensity |-> 2],
      [height |-> Num(10), raindropTtl |-> 2, rainfallIntensity |-> 1],
      [height |-> Num(10), raindropTtl |-> 3, rainfallIntensity |-> 2],
      [height |-> Num(10), raindropTtl |-> 4, rainfallIntensity |-> 2] }

FixedStep_Init ==
    /\ config \in {attachToElement(u) : u \in FixedStep_UserConfigs}
    /\ drops = <<>>
    /\ forceFactories = <<"gravity", "drag">>
    /\ clock = 0
    /\ then = 0
    /\ pc = "animating"
    /\ nextId = 1
    /\ ticked = FALSE
    /\ lastNow = 0
    /\ preLen = 0
    /\ spawnLen = 0
    /\ scan = <<>>
    /\ frameTicks = 0
    /\ step \in 1..MaxStep

\* step ms pass, then draw() calls rain.update()
FixedStep_Tick ==
    /\ clock + step <= MaxClock
    /\ clock' = clock + step
    /\ \E rnds \in [1..LayerSize(config) -> RandomDraws(config)] :
          LET r == Rainfall_update(drops, config, forceFactories, clock + step,
                                   rnds, nextId)
          IN /\ drops' = r.drops
             /\ nextId' = nextId + LayerSize(config)
             /\ ticked' = TRUE
             /\ lastNow' = clock + step
             /\ preLen' = Len(drops)
             /\ spawnLen' = r.spawnLen
             /\ scan' = r.scan
    /\ frameTicks' = 1
    /\ UNCHANGED <<config, forceFactories, then, pc, step>>

FixedStep_Next == FixedStep_Tick

SpecFixedStep == FixedStep_Init /\ [][FixedStep_Next]_vars

----------------------------------------------------------------------------
(* Rainfall.update under a scheduler that keeps running (rain.js,          *)
(* Rainfall.update, animate).  A behaviour has no last tick, so the state  *)
(* is kept finite by two reductions that the code cannot observe:          *)
(*   - times are kept relative to Date.now(): the clock stays 0 and a      *)
(*     step of d ms lowers every createdAt by d; update() only reads       *)
(*     Date.now() - createdAt, and only compares it with raindropTtl, so   *)
(*     an age is not counted beyond raindropTtl;                           *)
(*   - object identity is kept for one raindrop at a time, the followed    *)
(*     one (id 1); every other raindrop has id 0.  A tick may follow one   *)
(*     of the raindrops it creates when no raindrop is followed.           *)
(* A tick is a frame callback whose test `elapsed > fpsInterval` holds:    *)
(* at least 1 ms has passed since the tick before.  pc is "frame" when     *)
(* time has passed and the callback is due, "animating" when it has run.   *)

Live_UserConfigs ==
    { [height |-> 0, raindropTtl |-> 3, rainfallIntensity |-> 2],
      [height |-> Num(10), raindropTtl |-> 2, rainfallIntensity |-> 2],
      [height |-> Num(10), raindropTtl |-> 4, rainfallIntensity |-> 1] }

\* what the getRandom calls of __createRaindrop return in this
\* specification: the upper end of each range
Live_RandomDraws(c) ==
    {[x |-> c.width + c.offScreenOffset, y |-> Num(-200), size |-> Num(4)]}

Live_Init ==
    /\ config \in {attachToElement(u) : u \in Live_UserConfigs}
    /\ drops = <<>>
    /\ forceFactories = <<"gravity", "drag">>
    /\ clock = 0
    /\ then = 0
    /\ pc = "animating"
    /\ nextId = 2
    /\ ticked = FALSE
    /\ lastNow = 0
    /\ preLen = 0
    /\ spawnLen = 0
    /\ scan = <<>>
    /\ frameTicks = 0
    /\ step = 0

\* the raindrops d ms later, times relative to the new Date.now()
Live_Aged(ds, d, c) ==
    [i \in 1..Len(ds) |->
        [ds[i] EXCEPT !.createdAt = Max(@ - d, -c.raindropTtl)]]

\* identity reduced to followed (1) or not (0); t is the raindrop the tick
\* starts to follow, 0 for none
Live_Identity(drop, t) ==
    [drop EXCEPT !.id = IF @ = 1 \/ (t # 0 /\ @ = t) THEN 1 ELSE 0]

Live_Followed(ds) == \E i \in 1..Len(ds) : ds[i].id = 1

\* what the tick leaves: r is what rain.update() returns and logs
Live_Draw(r, t) ==
    /\ drops' = [i \in 1..Len(r.drops) |-> Live_Identity(r.drops[i], t)]
    /\ ticked' = TRUE
    /\ preLen' = Len(drops)
    /\ spawnLen' = r.spawnLen
    /\ scan' = [i \in 1..Len(r.scan) |->
                  [r.scan[i] EXCEPT !.before = Live_Identity(@, t),
                                    !.forced = Live_Identity(@, t),
                                    !.after = Live_Identity(@, t)]]
    /\ frameTicks' = 1

\* d ms pass between two frame callbacks
Live_Advance ==
    /\ pc = "animating"
    /\ pc' = "frame"
    /\ \E d \in 1..MaxStep : drops' = Live_Aged(drops, d, config)
    /\ UNCHANGED <<config, forceFactories, clock, then, nextId, ticked,
                   lastNow, preLen, spawnLen, scan, frameTicks, step>>

\* the frame callback calls draw() and with it rain.update()
Live_Frame ==
    /\ pc = "frame"
    /\ pc' = "animating"
    /\ \E rnds \in [1..LayerSize(config) -> Live_RandomDraws(config)] :
       \E t \in {0} \cup (IF Live_Followed(drops) THEN {}
                          ELSE nextId..(nextId + LayerSize(config) - 1)) :
       \E r \in {Rainfall_update(drops, config, forceFactories, clock,
                                  rnds, nextId)} :
          Live_Draw(r, t)
    /\ UNCHANGED <<config, forceFactories, clock, then, nextId, lastNow, step>>

Live_Next == Live_Advance \/ Live_Frame

\* Date.now() keeps advancing
SpecLive == Live_Init /\ [][Live_Next]_vars /\ WF_vars(Live_Advance)

----------------------------------------------------------------------------
(* Properties of the population update *)

Ids(ds) == {ds[j].id : j \in 1..Len(ds)}

\* the configured time to live (raindropTtl in rain.js, snowflakeTtl in the
\* snow scripts)
Ttl ==
    IF "raindropTtl" \in DOMAIN config THEN config.raindropTtl
    ELSE config.snowflakeTtl

Expired(drop, now) == now - drop.createdAt >= Ttl

\* the particle's atRest field as a JS condition reads it
AtRest(drop) == IF "atRest" \in DOMAIN drop THEN drop.atRest ELSE FALSE

Floor(drop) == config.height - drop.size

SameKinematics(a, b) ==
    /\ a.location = b.location
    /\ a.velocity = b.velocity
    /\ a.acceleration = b.acceleration

\* C1: a particle of the post-spawn population whose age at the tick is
\* below the time to live is still in the population after the tick.
C1_LiveParticleKept ==
    ticked =>
        \A i \in 1..Len(scan) :
            ~Expired(scan[i].before, lastNow) => scan[i].before.id \in Ids(drops)

\* C2: after a tick at clock value now the population holds no particle
\* with now - createdAt >= ttl.
C2_NoExpiredParticleLeft ==
    ticked => \A j \in 1..Len(drops) : ~Expired(drops[j], lastNow)

\* the configured intensity (rainfallIntensity in rain.js, intensity in the
\* snow script)
Intensity ==
    IF "intensity" \in DOMAIN config THEN config.intensity
    ELSE config.rainfallIntensity

\* C3: the spawn step of a tick adds exactly `intensity` particles, before
\* any removal of that tick.
C3_SpawnAddsIntensity ==
    ticked => spawnLen = preLen + Intensity

C3_Witness ==
    /\ ticked
    /\ config.rainfallIntensity = 2
    /\ preLen > 0
    /\ spawnLen = preLen + 2

\* C4 as stated: after update(), 0 <= location.y <= height - size.
C4_YWithinCanvas ==
    \A j \in 1..Len(drops) :
        drops[j].updated =>
            /\ 0 <= drops[j].location.y
            /\ drops[j].location.y <= Floor(drops[j])

\* C4 amended: after update(), 0 <= location.y, and location.y <=
\* height - size when the canvas is at least as high as the particle.
C4_YWithinCanvasIfItFits ==
    \A j \in 1..Len(drops) :
        drops[j].updated =>
            /\ 0 <= drops[j].location.y
            /\ config.height >= drops[j].size =>
                   drops[j].location.y <= Floor(drops[j])

\* a particle after its first update, and one lying on its floor
C4_Witness ==
    /\ \E i \in 1..Len(scan) :
          /\ ~scan[i].before.updated
          /\ scan[i].updates = 1
          /\ scan[i].before.location.y < 0
          /\ scan[i].after.location.y = 0
          /\ scan[i].after.id \in Ids(drops)
    /\ \E j \in 1..Len(drops) :
          /\ drops[j].atRest
          /\ config.height >= drops[j].size
          /\ drops[j].location.y = Floor(drops[j])

\* C5: update() on a particle at rest changes none of location, velocity,
\* acceleration, and no step of the program changes them either.
C5_RestFreezes ==
    [][\A i \in 1..Len(drops) :
          drops[i].atRest =>
              /\ SameKinematics(Raindrop_update(drops[i], config), drops[i])
              /\ \A j \in 1..Len(drops') :
                     drops'[j].id = drops[i].id =>
                         /\ drops'[j].atRest
                         /\ SameKinematics(drops'[j], drops[i])]_vars

\* a tick has scanned a particle that was at rest and had been accelerated
C5_Witness ==
    \E i \in 1..Len(scan) :
        /\ scan[i].before.atRest
        /\ scan[i].before.acceleration # Vector_create(0, 0)
        /\ scan[i].before.id \in Ids(drops)


TerminalV(drop) == FMul(config.terminalVelocityRate, drop.size)

Clamp(a, lo, hi) == Max(lo, Min(a, hi))

\* the scan iterations in which update() moved the particle
Integrated(e) == e.updates = 1 /\ ~e.after.atRest

\* C6: after update() of a non-resting particle each velocity component is
\* the sum of the old component and the acceleration, kept within
\* [-terminalV, terminalV]; a negative component is kept, not cut to 0.
C6_VelocityCapped ==
    \A i \in 1..Len(scan) :
        Integrated(scan[i]) =>
            LET e == scan[i]
                tv == TerminalV(e.forced)
            IN /\ e.after.velocity.x =
                      Clamp(e.forced.velocity.x + e.forced.acceleration.x, -tv, tv)
               /\ e.after.velocity.y =
                      Clamp(e.forced.velocity.y + e.forced.acceleration.y, -tv, tv)
               /\ -tv <= e.after.velocity.x /\ e.after.velocity.x <= tv
               /\ -tv <= e.after.velocity.y /\ e.after.velocity.y <= tv

\* C7: in one tick an expired particle and a particle at rest get no force
\* and no update; any other particle gets every registered force once, in
\* registration order, and then one update(); every particle of the
\* post-spawn population is scanned once.
C7_ScanDiscipline ==
    ticked =>
        /\ Len(scan) = spawnLen
        /\ \A i, j \in 1..Len(scan) :
               scan[i].before.id = scan[j].before.id => i = j
        /\ \A i \in 1..Len(scan) :
               LET e == scan[i]
               IN IF Expired(e.before, lastNow) \/ AtRest(e.before)
                  THEN /\ e.applied = <<>>
                       /\ e.updates = 0
                       /\ e.after = e.before
                  ELSE /\ e.applied = forceFactories
                       /\ e.updates = 1
                       /\ e.after.updated

\* one tick that scans an expired, a resting and a moving particle
C7_Witness ==
    /\ ticked
    /\ Len(forceFactories) >= 2
    /\ \E i \in 1..Len(scan) : Expired(scan[i].before, lastNow)
    /\ \E i \in 1..Len(scan) :
          ~Expired(scan[i].before, lastNow) /\ scan[i].before.atRest
    /\ \E i \in 1..Len(scan) :
          /\ ~Expired(scan[i].before, lastNow)
          /\ ~scan[i].before.atRest
          /\ scan[i].updates = 1

\* C8 as stated: a particle on its floor gets no force in any later tick.
C8_NoForceOnceOnFloor ==
    \A i \in 1..Len(scan) :
        scan[i].before.location.y >= Floor(scan[i].before) =>
            /\ scan[i].applied = <<>>
            /\ scan[i].forced.acceleration = scan[i].before.acceleration

\* C8 amended: a particle whose atRest flag is set gets no force in any
\* later tick; a particle on its floor whose flag is not yet set gets the
\* forces of one more tick, and the update() of that tick sets the flag.
C8_NoForceOnceAtRest ==
    \A i \in 1..Len(scan) :
        LET e == scan[i]
        IN /\ e.before.atRest =>
                  /\ e.applied = <<>>
                  /\ e.after.acceleration = e.before.acceleration
           /\ (e.before.location.y >= Floor(e.before) /\ e.updates = 1) =>
                  e.after.atRest

\* a tick scans a resting particle, and an earlier tick has left a
\* nonzero acceleration on it
C8_Witness ==
    \E i \in 1..Len(scan) :
        /\ scan[i].before.atRest
        /\ ~Expired(scan[i].before, lastNow)
        /\ scan[i].before.acceleration.y # 0
        /\ Len(forceFactories) > 0

\* C9: the force loop of a scan iteration leaves the particle's location
\* and velocity as they were; the factories work on copies.
C9_ForcesLeaveParticle ==
    \A i \in 1..Len(scan) :
        /\ scan[i].forced.location = scan[i].before.location
        /\ scan[i].forced.velocity = scan[i].before.velocity

\* drag has been evaluated for a moving particle
C9_Witness ==
    \E i \in 1..Len(scan) :
        /\ scan[i].updates = 1
        /\ \E k \in 1..Len(scan[i].applied) : scan[i].applied[k] = "drag"
        /\ scan[i].before.velocity.y # 0
        /\ scan[i].forced.acceleration # scan[i].before.acceleration

\* the registration orders of the registered factories
Orders(factories) ==
    LET n == Len(factories)
    IN {[k \in 1..n |-> factories[p[k]]] :
           p \in {q \in [1..n -> 1..n] : \A a, b \in 1..n : q[a] = q[b] => a = b}}

----------------------------------------------------------------------------
(* Properties of applyForce and of the particle's fixed fields *)

\* the applyForce calls a behaviour has logged
ApplyForceCalls == {i \in 1..Len(scan) : "force" \in DOMAIN scan[i]
                                          /\ scan[i].op = "applyForce"}

\* C11: applyForce(force) adds force / mass, componentwise and with
\* mass = size^2, to the acceleration and changes nothing else of the
\* particle (size 2, force (0, 8): the acceleration grows by (0, 2)).
C11_ApplyForceDividesByMass ==
    \A i \in ApplyForceCalls :
        LET e == scan[i]
            mass == FMul(e.before.size, e.before.size)
        IN e.after =
               [e.before EXCEPT !.acceleration =
                   [x |-> @.x + FDiv(e.force.x, mass),
                    y |-> @.y + FDiv(e.force.y, mass)]]

----------------------------------------------------------------------------
(* Properties of the Vector functions *)

\* the Vector calls a behaviour has logged
VectorCalls(op) == {i \in 1..Len(scan) : "op" \in DOMAIN scan[i]
                                          /\ scan[i].op = op}

\* a and b are the same JS number (a finite number, NaN or an infinity)
SameNumber(a, b) == ToString(a) = ToString(b)

SameVector(v, w) == SameNumber(v.x, w.x) /\ SameNumber(v.y, w.y)

IsFinite(a) ==
    ToString(a) \notin {ToString(NaN), ToString(PosInfinity), ToString(NegInfinity)}

IsVector(arg) == "x" \in DOMAIN arg /\ "y" \in DOMAIN arg

IsNumber(arg) == "number" \in DOMAIN arg

\* the operand is the number 0 or a vector with a zero component
ZeroOperand(arg) ==
    \/ IsNumber(arg) /\ arg.number = 0
    \/ IsVector(arg) /\ (arg.x = 0 \/ arg.y = 0)

\* C12: dividing a vector by a zero operand is a no-op: the target keeps its
\* components, nothing is thrown and no component becomes non-finite.
C12_DivideByZeroNoOp ==
    \A i \in VectorCalls("divide") :
        ZeroOperand(scan[i].arg) =>
            /\ ~scan[i].threw
            /\ SameVector(scan[i].result, scan[i].target)
            /\ IsFinite(scan[i].result.x) /\ IsFinite(scan[i].result.y)

\* C13: normalize() of a vector of magnitude 0 leaves it (0, 0) and throws
\* nothing.
C13_NormalizeZeroUnchanged ==
    \A i \in VectorCalls("normalize") :
        Vector_magnitude(scan[i].target) = 0 =>
            /\ ~scan[i].threw
            /\ SameVector(scan[i].result, scan[i].target)
            /\ SameVector(scan[i].result, Vector_create(0, 0))

\* normalize() has been called on the zero vector
C13_Witness ==
    \E i \in VectorCalls("normalize") :
        scan[i].target = Vector_create(0, 0) /\ pc = "returned"

\* C14: add, multiply and divide throw on an operand that is neither a
\* vector nor a number, and the target is as it was before the call.
C14_BadOperandRejected ==
    \A op \in {"add", "multiply", "divide"} :
        \A i \in VectorCalls(op) :
            (~IsVector(scan[i].arg) /\ ~IsNumber(scan[i].arg)) =>
                /\ scan[i].threw
                /\ SameVector(scan[i].result, scan[i].target)

\* divide has been called with a string on a vector of nonzero components
C14_Witness ==
    \E i \in VectorCalls("divide") :
        /\ scan[i].arg = [string |-> "a"]
        /\ scan[i].threw
        /\ scan[i].target = Vector_create(Num(4), Num(-3))

----------------------------------------------------------------------------
(* Properties of update() and of one tick *)

\* C15: update() of a particle that is not at rest and has location.y equal
\* to (or beyond) height - size sets atRest and leaves location, velocity
\* and acceleration as they were.
C15_UpdateAtFloorRests ==
    \A i \in 1..Len(scan) :
        LET e == scan[i]
        IN (e.updates = 1 /\ ~e.forced.atRest
            /\ e.forced.location.y >= Floor(e.forced)) =>
               /\ e.after.atRest
               /\ SameKinematics(e.forced, e.after)

\* update() was called on a moving particle lying exactly on its floor,
\* with the acceleration of this tick's forces
C15_Witness ==
    \E i \in 1..Len(scan) :
        /\ scan[i].updates = 1
        /\ ~scan[i].forced.atRest
        /\ scan[i].forced.location.y = Floor(scan[i].forced)
        /\ scan[i].forced.location.y > 0
        /\ scan[i].forced.acceleration.y # 0
        /\ scan[i].forced.velocity.y # 0

\* the first tick of a population with intensity 1 and gravity as the only
\* registered force
FirstGravityTick ==
    /\ ticked
    /\ preLen = 0
    /\ Intensity = 1
    /\ forceFactories = <<"gravity">>

\* C16: from an empty population, with intensity 1 and gravity alone, one
\* tick leaves exactly one particle; it is not at rest, its velocity is
\* (0, gravity) kept within the terminal cap, and its location.y is the
\* spawn y plus gravity, clamped into [0, height - size].
C16_FirstTickUnderGravity ==
    FirstGravityTick =>
        /\ Len(drops) = 1
        /\ Len(scan) = 1
        /\ drops[1] = scan[1].after
        /\ ~drops[1].atRest
        /\ drops[1].velocity =
               Vector_create(0, Clamp(config.gravity, -TerminalV(drops[1]),
                                      TerminalV(drops[1])))
        /\ drops[1].location.y =
               Clamp(scan[1].before.location.y + config.gravity,
                     0, Floor(drops[1]))

\* such a first tick has run, with a gravity below the terminal cap
C16_Witness ==
    /\ FirstGravityTick
    /\ Len(drops) = 1
    /\ config.gravity # 0
    /\ drops[1].velocity.y = config.gravity
    /\ scan[1].before.location.y < 0

\* C17: a particle is created with atRest false; once atRest is true it
\* stays true for as long as the particle is in the population; a particle
\* that enters the population is a newly created one, so a removed particle
\* never comes back.
C17_Lifecycle ==
    [][/\ \A j \in 1..Len(drops') :
              IF drops'[j].id \in Ids(drops)
              THEN \A i \in 1..Len(drops) :
                       (drops[i].id = drops'[j].id /\ drops[i].atRest)
                           => drops'[j].atRest
              ELSE drops'[j].id >= nextId
       /\ \A i \in 1..Len(scan') :
              scan'[i].before.id >= nextId => ~scan'[i].before.atRest]_vars

\* a population with a particle at rest and a moving one, after another
\* particle has been removed
C17_Witness ==
    /\ \E i \in 1..Len(drops) : drops[i].atRest
    /\ \E i \in 1..Len(drops) : ~drops[i].atRest
    /\ \E id \in 1..(nextId - 1) : id \notin Ids(drops)

\* C18 as stated: after update() of a particle that was not at rest the
\* acceleration is (0, 0).
C18_AccelerationZeroAfterUpdate ==
    \A i \in 1..Len(scan) :
        (scan[i].updates = 1 /\ ~scan[i].before.atRest) =>
            scan[i].after.acceleration = Vector_create(0, 0)

\* C18 amended: an update() that moves the particle leaves the acceleration
\* (0, 0), and every particle that is not at rest enters a tick with the
\* acceleration (0, 0), so what update() adds to the velocity comes from
\* this tick's forces alone; the update() that puts a particle to rest
\* leaves the acceleration of that tick's forces in place.
C18_AccelerationResetWhenMoved ==
    \A i \in 1..Len(scan) :
        LET e == scan[i]
        IN /\ Integrated(e) => e.after.acceleration = Vector_create(0, 0)
           /\ ~e.before.atRest => e.before.acceleration = Vector_create(0, 0)
           /\ (e.updates = 1 /\ ~Integrated(e)) =>
                  /\ e.after.atRest
                  /\ e.after.acceleration = e.forced.acceleration

\* a particle moved in an earlier tick is given a nonzero acceleration and
\* moved again
C18_Witness ==
    \E i \in 1..Len(scan) :
        /\ Integrated(scan[i])
        /\ scan[i].before.updated
        /\ scan[i].before.velocity.y # 0
        /\ scan[i].forced.acceleration.y # 0

\* C19: every particle of the population has location.x within
\* [-offScreenOffset, width + offScreenOffset], from its creation (where
\* its y is negative) and after every update().
C19_XWithinCanvas ==
    \A i \in 1..Len(drops) :
        /\ -config.offScreenOffset <= drops[i].location.x
        /\ drops[i].location.x <= config.width + config.offScreenOffset
        /\ ~drops[i].updated => drops[i].location.y < 0

\* update() has brought back a particle that its velocity took past the
\* left edge of the range
C19_Witness ==
    \E i \in 1..Len(scan) :
        /\ scan[i].updates = 1
        /\ scan[i].after.velocity.x < 0
        /\ scan[i].forced.location.x + scan[i].after.velocity.x
               < -config.offScreenOffset
        /\ scan[i].after.location.x = -config.offScreenOffset
        /\ drops = <<scan[i].after>>

\* the mass of a particle: its mass field, or what its mass getter returns
MassOf(p) == IF "mass" \in DOMAIN p THEN p.mass ELSE OldSnowflake_mass(p)

\* the mass is size^2; a mass kept as a vector has size^2 in both components
MassIsSquare(p) ==
    IF "mass" \in DOMAIN p
    THEN SameNumber(p.mass, FMul(p.size, p.size))
    ELSE OldSnowflake_mass(p) =
             Vector_create(FMul(p.size, p.size), FMul(p.size, p.size))

CreatedAtOf(p) == IF "createdAt" \in DOMAIN p THEN p.createdAt ELSE 0

\* C20: the mass of every particle is size^2, and no step changes the
\* size, the mass or the createdAt of a particle of the population.
C20_MassFixed ==
    /\ [](\A i \in 1..Len(drops) : MassIsSquare(drops[i]))
    /\ [][\A i \in 1..Len(drops) : \A j \in 1..Len(drops') :
              drops[i].id = drops'[j].id =>
                  /\ drops'[j].size = drops[i].size
                  /\ SameNumber(MassOf(drops'[j]), MassOf(drops[i]))
                  /\ CreatedAtOf(drops'[j]) = CreatedAtOf(drops[i])]_vars

----------------------------------------------------------------------------
(* Properties of the configuration and of the scheduler *)

\* config is what merging the caller's record u over the defaults gives
MergedOver(u) ==
    /\ DOMAIN config = DOMAIN DEFAULT_CONFIG \cup DOMAIN u
    /\ \A k \in DOMAIN u : config[k] = u[k]
    /\ \A k \in DOMAIN DEFAULT_CONFIG \ DOMAIN u : config[k] = DEFAULT_CONFIG[k]

\* C21: the configuration of the simulation is the caller's record merged
\* over DEFAULT_CONFIG (a field the caller supplies has the caller's value,
\* a field the caller omits has its default), and no step of the program,
\* a tick included, changes it.
C21_ConfigMerged ==
    /\ [](\E u \in UserConfigs : MergedOver(u))
    /\ [][config' = config]_vars

\* C21 witness: after a tick the configuration holds the caller's height
\* and terminalVelocityRate, which differ from the defaults, next to the
\* default gravity and width, which the caller omitted.
C21_Witness ==
    /\ ticked
    /\ config.height = Num(20) /\ config.height # DEFAULT_CONFIG.height
    /\ config.terminalVelocityRate = Num(1)
    /\ config.terminalVelocityRate # DEFAULT_CONFIG.terminalVelocityRate
    /\ config.gravity = DEFAULT_CONFIG.gravity
    /\ config.width = DEFAULT_CONFIG.width

\* a step in which animate runs: Date.now() is read, not advanced, and the
\* program is animating afterwards
IsFrame == clock' = clock /\ pc' = "animating"

\* `elapsed` of the run of animate that the step is: 0 in the call made by
\* startAnimating, now - then in a frame callback
Elapsed == IF pc = "setup" THEN 0 ELSE Num(clock) - then

\* Rainfall.update ran in the step
UpdateRan == <<ticked, lastNow>>' # <<ticked, lastNow>>

\* the step changed the population or the record of the last update
PopulationTouched ==
    <<drops, nextId, ticked, lastNow, preLen, spawnLen, scan>>'
        # <<drops, nextId, ticked, lastNow, preLen, spawnLen, scan>>

\* C22: every run of animate performs exactly one tick.
C22_OneTickPerFrame == pc = "animating" => frameTicks = 1

\* C22, amended: a run of animate performs one tick when more than
\* 1000 / fps ms passed since the time it keeps in `then`, and none
\* otherwise; the population is updated in no other step.
C22_AtMostOneTickPerFrame ==
    /\ [](frameTicks \in {0, 1})
    /\ [][/\ IsFrame => /\ frameTicks' = (IF Elapsed > fpsInterval THEN 1 ELSE 0)
                        /\ frameTicks' = 1 => UpdateRan
                        /\ frameTicks' = 0 => ~PopulationTouched
          /\ PopulationTouched => IsFrame /\ frameTicks' = 1]_vars

\* C22 witness: ticks have run, time has passed since the last one, and
\* the frame callback that ran last performed none.
C22_Witness ==
    /\ pc = "animating" /\ ticked /\ Len(drops) > 0
    /\ clock > lastNow
    /\ frameTicks = 0

----------------------------------------------------------------------------
(* Properties of the population over time *)

\* C23: Date.now() never decreases in the program, and in every state the
\* population is ordered by createdAt, non-decreasing from first to last;
\* the particles the scan of the last tick marked as expired form a prefix
\* of the collection it scanned.
C23_OrderedByCreatedAt ==
    /\ [][clock' >= clock]_vars
    /\ [](/\ \A i, j \in 1..Len(drops) :
                i < j => drops[i].createdAt <= drops[j].createdAt
          /\ \A i, j \in 1..Len(scan) :
                (i < j /\ scan[j].marked) => scan[i].marked)

\* C23 witness: the last scan ran over particles of two creation times,
\* marked the first of them and not the last, and the population that is
\* left holds particles of two creation times.
C23_Witness ==
    /\ ticked /\ Len(scan) >= 3
    /\ scan[1].marked /\ ~scan[Len(scan)].marked
    /\ Len(drops) >= 2
    /\ drops[1].createdAt < drops[Len(drops)].createdAt

\* ceil(a / b) of positive integers
CeilDiv(a, b) == (a + b - 1) \div b

\* C24: with update() invoked every step ms, the population after a tick
\* holds at most intensity * (ceil(ttl / step) + 1) particles.
C24_PopulationBounded ==
    ticked => Len(drops) <= Intensity * (CeilDiv(Ttl, step) + 1)

\* C24 witness: particles have been removed, and the population left by
\* the tick holds intensity * ceil(ttl / step) particles, the particles of
\* the ticks that lie less than ttl back.
C24_Witness ==
    /\ ticked /\ Len(drops) < nextId - 1
    /\ Intensity = 2 /\ Ttl = 3 /\ step = 2
    /\ Len(drops) = Intensity * CeilDiv(Ttl, step)

\* C25: if frame callbacks keep running, each at least 1 ms after the one
\* before, a raindrop that is in the population (the followed one stands
\* for any) is eventually not in the population any more.
C25_EventuallyRemoved ==
    []<>(pc = "animating") => (Live_Followed(drops) ~> ~Live_Followed(drops))

\* C25 witness: the followed raindrop is at rest and has reached its time
\* to live, and it is still in the population after a tick that marked two
\* or more raindrops as expired.
C25_Witness ==
    /\ ticked
    /\ \E i \in 1..Len(drops) :
          /\ drops[i].id = 1 /\ drops[i].atRest
          /\ clock - drops[i].createdAt >= Ttl
    /\ \E i, j \in 1..Len(scan) : i # j /\ scan[i].marked /\ scan[j].marked

\* a first update() of a particle spawned in the band above the canvas,
\* with a terminal velocity below 200 and a canvas at least as high as the
\* particle
FirstUpdateFromBand(e) ==
    /\ e.updates = 1
    /\ ~e.before.updated
    /\ Num(-500) <= e.before.location.y /\ e.before.location.y <= Num(-200)
    /\ TerminalV(e.before) < Num(200)
    /\ Floor(e.before) >= 0

====
